---- MODULE Spec2Model ----
(***************************************************************************)
(* Steam news bot: the translation throttle (src/translator.py), the feed  *)
(* client (src/steam_api.py) and the auto-posting poller with its ledger   *)
(* of published news (src/bot.py).                                         *)
(*                                                                         *)
(* Time is counted in whole seconds.  Every action is a whole handler, or *)
(* the run of a coroutine from one suspension point (await) to a later     *)
(* one; awaits that only read from the outside are taken together.         *)
(* A text is a sequence of characters (one-character strings).             *)
(***************************************************************************)
EXTENDS Integers, Sequences, FiniteSets, TLC

(***************************************************************************)
(* Program constants                                                       *)
(***************************************************************************)
TRANSLATION_RATE_LIMIT == 20
MIN_TRANSLATION_INTERVAL == 1
\* the literal 60 of _apply_rate_limit: the length of the counting window
WINDOW_SECONDS == 60
MAX_TRANSLATION_LENGTH == 1500
MAX_NEWS_ITEMS == 3
\* news['contents'][:600]
BODY_LIMIT == 600
\* len(news['title']) > 10
ORIGINAL_TITLE_MIN == 10
\* asyncio.sleep(2) between two posted news
ITEM_DELAY == 2
\* the app id of the tracked game
OUTBRK == 1107320
\* seconds between two on-demand requests of one user
RATE_LIMIT_SECONDS == 30
\* asyncio.sleep(1) between two news of an on-demand request
REQUEST_ITEM_DELAY == 1

(***************************************************************************)
(* Bounds of the model                                                     *)
(***************************************************************************)
\* the clock's reading when the Translator is constructed
StartTime == 2
\* the callers of the throttle are followed for this many seconds
Horizon == 61
\* poll cycles started over a run
MaxCycles == 2
\* process restarts over a run
MaxRestarts == 1
\* /steam-news commands received over a run
MaxRequests == 1
\* failures of the outside over a run: a translation, a send or a write of
\* the ledger file that fails
MaxFaults == 2

\* no time recorded
NoTime == 0 - 1
\* the calls of check_rate_limit that are followed alone
MaxAsks == 4

VARIABLES
    now,                \* time.time()
    request_count,      \* Translator.request_count
    reset_time,         \* Translator.reset_time
    last_request_time,  \* Translator.last_request_time
    task,               \* per caller of translate_text: where it is suspended
    admits,             \* observer: the calls the throttle has let through
    published_news,     \* SteamNewsBot.published_news
    ledger_file,        \* the contents of published_news.json
    auto_channel_id,    \* SteamNewsBot.auto_channel_id
    poller,             \* the auto_news_checker loop and its current cycle
    sent,               \* observer: the messages the channels accepted
    cycle_log,          \* observer: the poll cycles that ended
    lifetime,           \* observer: how often the process was restarted
    user_cooldowns,     \* SteamNewsBot.user_cooldowns
    trouble,            \* observer: the failures of the outside so far
    ondemand,           \* the _process_and_post_news task of a /steam-news
    call,               \* one call of Translator.translate_text followed alone
    saved,              \* observer: what became of the last write of the ledger file
    ready,              \* the client is ready: on_ready was dispatched
    fetch,              \* one call of SteamAPI.get_game_news followed alone
    asks                \* observer: the calls of check_rate_limit followed alone

gateVars == <<now, request_count, reset_time, last_request_time, task, admits>>
botVars == <<published_news, ledger_file, auto_channel_id, poller, sent,
             cycle_log, lifetime, user_cooldowns, trouble, ondemand, call, fetch, asks, saved, ready>>
vars == <<now, request_count, reset_time, last_request_time, task, admits,
          published_news, ledger_file, auto_channel_id, poller, sent,
          cycle_log, lifetime, user_cooldowns, trouble, ondemand, call, fetch, asks, saved, ready>>

(***************************************************************************)
(* Texts                                                                   *)
(***************************************************************************)
Min(a, b) == IF a < b THEN a ELSE b

\* s[:n]
Prefix(s, n) == SubSeq(s, 1, Min(n, Len(s)))

\* str.isspace for the characters of the model
IsSpace(c) == c \in {" ", "\t", "\n", "\r"}

\* the first position >= i of s that holds c, 0 when there is none
RECURSIVE Find(_, _, _)
Find(s, c, i) ==
    IF i > Len(s) THEN 0 ELSE IF s[i] = c THEN i ELSE Find(s, c, i + 1)

\* pat occurs in s at position i
OccursAt(s, pat, i) ==
    /\ i + Len(pat) - 1 <= Len(s)
    /\ SubSeq(s, i, i + Len(pat) - 1) = pat

\* str.replace(pat, rep), from position i on
RECURSIVE ReplaceFrom(_, _, _, _)
ReplaceFrom(s, pat, rep, i) ==
    IF i > Len(s) THEN <<>>
    ELSE IF OccursAt(s, pat, i)
         THEN rep \o ReplaceFrom(s, pat, rep, i + Len(pat))
         ELSE <<s[i]>> \o ReplaceFrom(s, pat, rep, i + 1)

Replace(s, pat, rep) == ReplaceFrom(s, pat, rep, 1)

\* str.replace(c, d) for one-character c and d
ReplaceChar(s, c, d) == [k \in DOMAIN s |-> IF s[k] = c THEN d ELSE s[k]]

\* ' '.join(s.split()): the characters of the words are kept, and of every
\* run of whitespace between two words one position, which becomes a blank
JoinSplit(s) ==
    LET n == Len(s)
        WordChar(k) == ~IsSpace(s[k])
        Kept(k) == \/ WordChar(k)
                   \/ (k > 1 /\ WordChar(k - 1) /\ \E j \in (k + 1)..n : WordChar(j))
        kept == SelectSeq([k \in 1..n |-> k], Kept)
    IN  [m \in 1..Len(kept) |-> IF WordChar(kept[m]) THEN s[kept[m]] ELSE " "]

\* s.split(sep), from position i on; at holds the positions where sep occurs
RECURSIVE SplitFrom(_, _, _, _)
SplitFrom(s, sep, i, at) ==
    LET ahead == {j \in at : j >= i} IN
    IF ahead = {} THEN <<SubSeq(s, i, Len(s))>>
    ELSE LET next == CHOOSE j \in ahead : \A k \in ahead : j <= k IN
         <<SubSeq(s, i, next - 1)>> \o SplitFrom(s, sep, next + Len(sep), at)

Split(s, sep) ==
    SplitFrom(s, sep, 1, {j \in 1..Len(s) : s[j] = sep[1] /\ OccursAt(s, sep, j)})

\* s.rstrip(chars): s without its n last characters, the longest run of
\* characters of chars that ends s
RStrip(s, chars) ==
    LET n == CHOOSE n \in 0..Len(s) :
                 /\ \A m \in 1..n : s[Len(s) + 1 - m] \in chars
                 /\ n < Len(s) => s[Len(s) - n] \notin chars
    IN  SubSeq(s, 1, Len(s) - n)

\* s.lstrip(chars): s without its n first characters, the longest run of
\* characters of chars that starts s
LStrip(s, chars) ==
    LET n == CHOOSE n \in 0..Len(s) :
                 /\ \A m \in 1..n : s[m] \in chars
                 /\ n < Len(s) => s[n + 1] \notin chars
    IN  SubSeq(s, n + 1, Len(s))

\* s.strip()
Strip(s) == LStrip(RStrip(s, {" ", "\t", "\n", "\r"}), {" ", "\t", "\n", "\r"})

\* not text or not text.strip()
IsBlank(text) == text = <<>> \/ Strip(text) = <<>>

(***************************************************************************)
(* SteamAPI._clean_html                                                    *)
(***************************************************************************)
\* re.sub(r'<[^>]+>', '', text)
RECURSIVE StripTags(_)
StripTags(s) ==
    IF s = <<>> THEN <<>>
    ELSE LET close == IF Head(s) = "<" THEN Find(s, ">", 2) ELSE 0 IN
         IF close > 2 THEN StripTags(SubSeq(s, close + 1, Len(s)))
         ELSE <<Head(s)>> \o StripTags(Tail(s))

\* the html_entities table, in its order
DecodeEntities(s) ==
    LET s1 == Replace(s, <<"&", "a", "m", "p", ";">>, <<"&">>)
        s2 == Replace(s1, <<"&", "l", "t", ";">>, <<"<">>)
        s3 == Replace(s2, <<"&", "g", "t", ";">>, <<">">>)
        s4 == Replace(s3, <<"&", "q", "u", "o", "t", ";">>, <<"\"">>)
        s5 == Replace(s4, <<"&", "#", "3", "9", ";">>, <<"'">>)
    IN  Replace(s5, <<"&", "n", "b", "s", "p", ";">>, <<" ">>)

CleanHtml(text) ==
    IF text = <<>> THEN <<>> ELSE JoinSplit(DecodeEntities(StripTags(text)))

(***************************************************************************)
(* Translator._prepare_text_for_translation, Translator.translate_text     *)
(***************************************************************************)
\* the loop of lines 120-124 going on past a sentence that does not fit
RECURSIVE AccumulateSkipping(_, _, _)
AccumulateSkipping(sentences, k, result) ==
    IF k > Len(sentences) THEN result
    ELSE LET longer == result \o sentences[k] \o <<".", " ">> IN
         IF Len(longer) <= MAX_TRANSLATION_LENGTH
         THEN AccumulateSkipping(sentences, k + 1, longer)
         ELSE AccumulateSkipping(sentences, k + 1, result)

\* lines 120-124: whole sentences while they fit
RECURSIVE Accumulate(_, _, _)
Accumulate(sentences, k, result) ==
    IF k > Len(sentences) THEN result
    ELSE LET longer == result \o sentences[k] \o <<".", " ">> IN
         IF Len(longer) <= MAX_TRANSLATION_LENGTH
         THEN Accumulate(sentences, k + 1, longer)
         ELSE result

\* lines 109-113: whitespace collapsed, then newlines and tabs made blanks
Normalised(text) ==
    ReplaceChar(ReplaceChar(ReplaceChar(JoinSplit(text), "\n", " "), "\r", " "),
                "\t", " ")

\* the preparation without lines 116-129
PrepareTextUncut(text) ==
    IF text = <<>> THEN <<>> ELSE Strip(Normalised(text))

PrepareText(text) ==
    IF text = <<>> THEN <<>>
    ELSE LET t2 == Normalised(text)
             result == Accumulate(Split(t2, <<".", " ">>), 1, <<>>)
             t3 == IF Len(t2) > MAX_TRANSLATION_LENGTH
                   THEN IF result # <<>> THEN RStrip(result, {".", " "})
                        ELSE Prefix(t2, MAX_TRANSLATION_LENGTH)
                   ELSE t2
         IN  Strip(t3)

\* lines 35-38: what is handed to the external translator
Payload(text) ==
    LET clean_text == PrepareText(text) IN
    IF Len(clean_text) > MAX_TRANSLATION_LENGTH
    THEN Prefix(clean_text, MAX_TRANSLATION_LENGTH) \o <<".", ".", ".">>
    ELSE clean_text

\* the external translator's answer to a payload: its text in French
GoogleTranslate(payload) == <<"fr:">> \o payload

\* translate_text whose except clause returns the text as it came
TranslateTextUnmarked(text, ok) ==
    IF IsBlank(text) THEN text
    ELSE IF ok THEN GoogleTranslate(Payload(text))
    ELSE text

\* lines 27-55: what translate_text returns; ok tells whether the throttle
\* and the external call went through without raising
TranslateText(text, ok) ==
    IF IsBlank(text) THEN text
    ELSE IF ok THEN GoogleTranslate(Payload(text))
    ELSE <<"[Translation failed] ">> \o text

\* no call of check_rate_limit is followed alone
NoAsks == [n |-> 0, user_id |-> 0, returned |-> FALSE, before |-> <<>>,
           accepted |-> <<>>]

\* no call of get_game_news is followed alone
NoFetch == [pc |-> "none", r |-> "NoResponse", pages |-> <<>>, result |-> <<>>,
            probe |-> "none", header |-> ""]

\* no call of translate_text is followed alone
NoCall == [pc |-> "none", text |-> <<>>, fault |-> "none", handed |-> <<>>,
           result |-> <<>>]

(***************************************************************************)
(* Translator._apply_rate_limit                                            *)
(***************************************************************************)
IdleTask == [pc |-> "idle", current_time |-> 0, wake |-> 0, slept_cap |-> FALSE]

\* Observer of the admissions (the executions of lines 98-99).
\*   last      time of the latest admission, NoTime before the first
\*   tooClose  an admission came less than MIN_TRANSLATION_INTERVAL after
\*             the admission before it
\*   rolling   whether rolling intervals are observed; when they are,
\*   winStart  is an admission instant picked arbitrarily as the start of a
\*             rolling interval of WINDOW_SECONDS, and
\*   winCount  the admissions in [winStart, winStart + WINDOW_SECONDS)
NoAdmits(rolling) ==
    [last |-> NoTime, tooClose |-> FALSE, rolling |-> rolling,
     winStart |-> NoTime, winCount |-> 0]

Observe(a, t, mark) ==
    [last |-> t,
     tooClose |-> a.tooClose
                  \/ (a.last # NoTime /\ t - a.last < MIN_TRANSLATION_INTERVAL),
     rolling |-> a.rolling,
     winStart |-> IF a.winStart = NoTime /\ mark THEN t ELSE a.winStart,
     winCount |-> IF a.winStart = NoTime
                  THEN (IF mark THEN 1 ELSE 0)
                  ELSE IF t < a.winStart + WINDOW_SECONDS
                       THEN a.winCount + 1 ELSE a.winCount]

\* line 79: the counting window has elapsed
WindowElapsed(current_time, rst) == current_time - rst >= WINDOW_SECONDS

\* line 84: the cap of the counting window is reached
CapReached(cnt) == cnt >= TRANSLATION_RATE_LIMIT

\* a wait of one spacing interval instead of the rest of the window
CapWaitTimeShort(current_time, rst) == MIN_TRANSLATION_INTERVAL

\* line 85
CapWaitTime(current_time, rst) == WINDOW_SECONDS - (current_time - rst)

\* line 93
TimeSinceLast(current_time, last) == current_time - last

\* a spacing test that lets every call through, against which C9 is tried
NeverTooSoon(time_since_last) == FALSE

\* line 94
TooSoon(time_since_last) == time_since_last < MIN_TRANSLATION_INTERVAL

\* line 95
GapWaitTime(time_since_last) == MIN_TRANSLATION_INTERVAL - time_since_last

\* lines 98-99: the call is let through
Admit(t, cnt, rst, slept) ==
    /\ last_request_time' = now
    /\ request_count' = cnt + 1
    /\ reset_time' = rst
    /\ task' = [task EXCEPT ![t] = [pc |-> "exec", current_time |-> 0, wake |-> 0,
                                    slept_cap |-> slept]]
    /\ \E mark \in (IF admits.rolling THEN BOOLEAN ELSE {FALSE}) :
           admits' = Observe(admits, now, mark)

\* lines 92-99, entered with the counter cnt and the window start rst that
\* lines 76-90 left, and the clock reading current_time of line 76
SpacingCheck(t, current_time, cnt, rst, slept) ==
    LET time_since_last == TimeSinceLast(current_time, last_request_time) IN
    IF TooSoon(time_since_last)
    THEN /\ task' = [task EXCEPT ![t] =
                        [pc |-> "sleep_gap", current_time |-> current_time,
                         wake |-> now + GapWaitTime(time_since_last),
                         slept_cap |-> slept]]
         /\ request_count' = cnt
         /\ reset_time' = rst
         /\ UNCHANGED <<last_request_time, admits>>
    ELSE Admit(t, cnt, rst, slept)

\* lines 76-88 (and on to 99 when nothing suspends): a caller enters
ApplyRateLimit(t) ==
    /\ task[t].pc = "idle"
    /\ LET current_time == now
           elapsed == WindowElapsed(current_time, reset_time)
           cnt == IF elapsed THEN 0 ELSE request_count
           rst == IF elapsed THEN current_time ELSE reset_time
           wait_time == CapWaitTime(current_time, rst)
       IN  IF CapReached(cnt) /\ wait_time > 0
           THEN /\ task' = [task EXCEPT ![t] =
                               [pc |-> "sleep_cap", current_time |-> current_time,
                                wake |-> now + wait_time, slept_cap |-> TRUE]]
                /\ request_count' = cnt
                /\ reset_time' = rst
                /\ UNCHANGED <<last_request_time, admits>>
           ELSE SpacingCheck(t, current_time, cnt, rst, FALSE)
    /\ UNCHANGED now
    /\ UNCHANGED botVars

\* lines 89-99: the sleep of line 88 is over
WakeFromCapSleep(t) ==
    /\ task[t].pc = "sleep_cap"
    /\ now >= task[t].wake
    /\ SpacingCheck(t, task[t].current_time, 0, now, TRUE)
    /\ UNCHANGED now
    /\ UNCHANGED botVars

\* lines 98-99: the sleep of line 96 is over
WakeFromGapSleep(t) ==
    /\ task[t].pc = "sleep_gap"
    /\ now >= task[t].wake
    /\ Admit(t, request_count, reset_time, task[t].slept_cap)
    /\ UNCHANGED now
    /\ UNCHANGED botVars

\* translate_text lines 34-55: the external translation returns or raises
TranslateReturn(t) ==
    /\ task[t].pc = "exec"
    /\ task' = [task EXCEPT ![t] = IdleTask]
    /\ UNCHANGED <<now, request_count, reset_time, last_request_time, admits>>
    /\ UNCHANGED botVars

\* the clock
Advance ==
    /\ now < StartTime + Horizon
    /\ now' = now + 1
    /\ UNCHANGED <<request_count, reset_time, last_request_time, task, admits>>
    /\ UNCHANGED botVars

\* _apply_rate_limit run from line 76 to line 99 by a caller that no other
\* caller interleaves with, each sleep lasting what it asked for; g holds
\* the clock and the three counters, the result holds them afterwards
Throttle(g) ==
    LET current_time == g.now
        elapsed == WindowElapsed(current_time, g.reset_time)
        cnt == IF elapsed THEN 0 ELSE g.request_count
        rst == IF elapsed THEN current_time ELSE g.reset_time
        wait_time == CapWaitTime(current_time, rst)
        capped == CapReached(cnt) /\ wait_time > 0
        t1 == IF capped THEN current_time + wait_time ELSE current_time
        time_since_last == TimeSinceLast(current_time, g.last_request_time)
        t2 == IF TooSoon(time_since_last) THEN t1 + GapWaitTime(time_since_last) ELSE t1
    IN  [now |-> t2,
         request_count |-> (IF capped THEN 0 ELSE cnt) + 1,
         reset_time |-> IF capped THEN t1 ELSE rst,
         last_request_time |-> t2]

\* a call that goes through the throttle whatever its text
GateAfterCallAlways(g, text) == Throttle(g)

\* translate_text line 27-32: a blank text does not reach the throttle
GateAfterCall(g, text) == IF IsBlank(text) THEN g ELSE Throttle(g)

GateState == [now |-> now, request_count |-> request_count,
              reset_time |-> reset_time, last_request_time |-> last_request_time]

\* Translator.__init__
GateInit(callers, rolling) ==
    /\ now = StartTime
    /\ last_request_time = 0
    /\ request_count = 0
    /\ reset_time = StartTime
    /\ task = [t \in callers |-> IdleTask]
    /\ admits = NoAdmits(rolling)

GateNext(callers) ==
    \/ \E t \in callers : ApplyRateLimit(t)
    \/ \E t \in callers : WakeFromCapSleep(t)
    \/ \E t \in callers : WakeFromGapSleep(t)
    \/ \E t \in callers : TranslateReturn(t)
    \/ Advance

(***************************************************************************)
(* SteamAPI.get_game_news                                                  *)
(***************************************************************************)
NoImage == ""

HasKey(item, key) == key \in DOMAIN item

\* item.get(key, default)
Get(item, key, default) == IF HasKey(item, key) THEN item[key] ELSE default

\* a dict that keeps the upstream 'gid', against which C4 is tried
ProcessedFieldsWithGid(item, app_id) ==
    [gid |-> Get(item, "gid", ""),
     title |-> CleanHtml(Get(item, "title", <<>>)),
     contents |-> CleanHtml(Get(item, "contents", <<>>)),
     url |-> Get(item, "url", ""),
     author |-> Get(item, "author", ""),
     date |-> Get(item, "date", 0),
     feed_label |-> Get(item, "feedlabel", ""),
     feed_name |-> Get(item, "feedname", ""),
     feed_type |-> Get(item, "feed_type", 0),
     appid |-> Get(item, "appid", app_id)]

\* lines 127-137: the dict built for one upstream item
ProcessedFields(item, app_id) ==
    [title |-> CleanHtml(Get(item, "title", <<>>)),
     contents |-> CleanHtml(Get(item, "contents", <<>>)),
     url |-> Get(item, "url", ""),
     author |-> Get(item, "author", ""),
     date |-> Get(item, "date", 0),
     feed_label |-> Get(item, "feedlabel", ""),
     feed_name |-> Get(item, "feedname", ""),
     feed_type |-> Get(item, "feed_type", 0),
     appid |-> Get(item, "appid", app_id)]

\* lines 139-149: image_url is what lines 140-144 resolved (NoImage: nothing)
ProcessedItem(processed_item, image_url) ==
    IF image_url # NoImage
    THEN [image |-> image_url] @@ processed_item
    ELSE processed_item

\* lines 124-137: the dicts built for the items of the response, in order
RECURSIVE ProcessedNews(_, _)
ProcessedNews(news_items, app_id) ==
    IF news_items = <<>> THEN <<>>
    ELSE <<ProcessedFields(Head(news_items), app_id)>>
         \o ProcessedNews(Tail(news_items), app_id)

\* the upstream items of the model
BigUpdate == <<"B", "i", "g", " ", "U", "p", "d", "a", "t", "e">>
HotfixNotes == <<"<", "b", ">", "H", "o", "t", "f", "i", "x", "<", "/", "b", ">",
                 " ", " ", "n", "o", "t", "e", "s", " ", "&", "a", "m", "p", ";",
                 " ", "m", "o", "r", "e">>

Item42 == [gid |-> "42", title |-> BigUpdate, contents |-> <<".", ".", ".">>,
           url |-> "https://store.steampowered.com/news/42", author |-> "dev",
           date |-> 1700000000, feedlabel |-> "Community Announcements",
           feedname |-> "steam_community_announcements", feed_type |-> 1,
           appid |-> OUTBRK]
ItemA == [gid |-> "a", title |-> HotfixNotes, contents |-> <<"A", ".", " ", "a">>,
          url |-> "https://store.steampowered.com/news/a", author |-> "Steam",
          date |-> 1700000300, feedlabel |-> "Community Announcements",
          feedname |-> "steam_community_announcements", feed_type |-> 1,
          appid |-> OUTBRK]
ItemB == [gid |-> "b", title |-> <<"B">>, contents |-> <<"b", "\n", "b">>,
          url |-> "https://store.steampowered.com/news/b", author |-> "dev",
          date |-> 1700000200, feedlabel |-> "Community Announcements",
          feedname |-> "steam_community_announcements", feed_type |-> 1,
          appid |-> OUTBRK]
ItemC == [gid |-> "c", title |-> <<"C">>, contents |-> <<"c", " ", "&", "l", "t", ";", "c", "&", "g", "t", ";">>,
          url |-> "https://store.steampowered.com/news/c", author |-> "dev",
          date |-> 1700000100, feedlabel |-> "Community Announcements",
          feedname |-> "steam_community_announcements", feed_type |-> 1,
          appid |-> OUTBRK]
\* an item that has a title and none of the other fields
ItemBare == [title |-> <<"D">>]

Feed42 == [kind |-> "ok", items |-> <<Item42>>]
FeedBare == [kind |-> "ok", items |-> <<ItemBare>>]
FeedABC == [kind |-> "ok", items |-> <<ItemA, ItemB, ItemC>>]
\* an answer that holds more items than the count asked for at line 112
FeedABC42 == [kind |-> "ok", items |-> <<ItemA, ItemB, ItemC, Item42>>]
\* a status other than 200, whatever its body holds; a network error or a
\* timeout, raised by session.get or response.json; an answer without
\* 'appnews'
BadStatus == [kind |-> "status", items |-> <<Item42>>]
NetworkError == [kind |-> "error", items |-> <<>>]
NoAppNews == [kind |-> "no_appnews", items |-> <<>>]

\* the upstream responses of the model, by name; NoResponse: none asked for
Response ==
    [Feed42 |-> Feed42, FeedABC |-> FeedABC, FeedABC42 |-> FeedABC42,
     FeedBare |-> FeedBare,
     BadStatus |-> BadStatus,
     NetworkError |-> NetworkError, NoAppNews |-> NoAppNews]
Responses == DOMAIN Response
NoResponse == "NoResponse"

ClanImage == "https://clan.fastly.steamstatic.com/images/1/pic.png"
ImageOutcomes == {NoImage, ClanImage}

\* lines 124-137 for each response of the model, asked for OUTBRK
NewsOf ==
    [Feed42 |-> ProcessedNews(Feed42.items, OUTBRK),
     FeedABC |-> ProcessedNews(FeedABC.items, OUTBRK),
     FeedABC42 |-> ProcessedNews(FeedABC42.items, OUTBRK),
     FeedBare |-> ProcessedNews(FeedBare.items, OUTBRK),
     BadStatus |-> ProcessedNews(BadStatus.items, OUTBRK),
     NetworkError |-> ProcessedNews(NetworkError.items, OUTBRK),
     NoAppNews |-> ProcessedNews(NoAppNews.items, OUTBRK)]

\* the images that lines 140-144 may resolve for the items of response r
ImagesOf(r) ==
    {images \in [1..Len(Response[r].items) -> ImageOutcomes] :
        \A k \in 1..Len(Response[r].items) :
            images[k] # NoImage =>
                \/ Get(Response[r].items[k], "contents", <<>>) # <<>>
                \/ Get(Response[r].items[k], "url", "") # ""}

\* get_game_news without the test of line 118
GetGameNewsAnyStatus(r, images) ==
    IF Response[r].kind \in {"ok", "status"}
    THEN [k \in 1..Len(NewsOf[r]) |-> ProcessedItem(NewsOf[r][k], images[k])]
    ELSE <<>>

\* lines 106-158: what get_game_news returns for the named response r,
\* images[k] being the image resolved for its k-th item
GetGameNews(r, images) ==
    IF Response[r].kind = "ok"
    THEN [k \in 1..Len(NewsOf[r]) |-> ProcessedItem(NewsOf[r][k], images[k])]
    ELSE <<>>

\* the upstream identifiers of the items of a response, in its order
SourceIds(r) == [k \in 1..Len(Response[r].items) |-> Get(Response[r].items[k], "gid", "")]

HeaderImage == "https://cdn.akamai.steamstatic.com/steam/apps/1107320/header.jpg"

(***************************************************************************)
(* SteamAPI._get_image_from_steam_url, SteamAPI.get_game_header_image      *)
(***************************************************************************)
\* other URLs that the patterns of lines 274-282 find on a page
ClanIcon == "https://clan.fastly.steamstatic.com/images/1/Icon.png"
SharedThumb == "https://shared.fastly.steamstatic.com/store/thumb_1.jpg"
SharedPic == "https://shared.fastly.steamstatic.com/store/pic2.jpg"

\* the characters of the URLs of the model
UrlChars ==
    (ClanImage :>
        <<"h", "t", "t", "p", "s", ":", "/", "/", "c", "l", "a", "n",
          ".", "f", "a", "s", "t", "l", "y", ".", "s", "t", "e", "a",
          "m", "s", "t", "a", "t", "i", "c", ".", "c", "o", "m", "/",
          "i", "m", "a", "g", "e", "s", "/", "1", "/", "p", "i", "c",
          ".", "p", "n", "g">>)
    @@
    (ClanIcon :>
        <<"h", "t", "t", "p", "s", ":", "/", "/", "c", "l", "a", "n",
          ".", "f", "a", "s", "t", "l", "y", ".", "s", "t", "e", "a",
          "m", "s", "t", "a", "t", "i", "c", ".", "c", "o", "m", "/",
          "i", "m", "a", "g", "e", "s", "/", "1", "/", "I", "c", "o",
          "n", ".", "p", "n", "g">>)
    @@
    (SharedThumb :>
        <<"h", "t", "t", "p", "s", ":", "/", "/", "s", "h", "a", "r",
          "e", "d", ".", "f", "a", "s", "t", "l", "y", ".", "s", "t",
          "e", "a", "m", "s", "t", "a", "t", "i", "c", ".", "c", "o",
          "m", "/", "s", "t", "o", "r", "e", "/", "t", "h", "u", "m",
          "b", "_", "1", ".", "j", "p", "g">>)
    @@
    (SharedPic :>
        <<"h", "t", "t", "p", "s", ":", "/", "/", "s", "h", "a", "r",
          "e", "d", ".", "f", "a", "s", "t", "l", "y", ".", "s", "t",
          "e", "a", "m", "s", "t", "a", "t", "i", "c", ".", "c", "o",
          "m", "/", "s", "t", "o", "r", "e", "/", "p", "i", "c", "2",
          ".", "j", "p", "g">>)
    @@
    (HeaderImage :>
        <<"h", "t", "t", "p", "s", ":", "/", "/", "c", "d", "n", ".",
          "a", "k", "a", "m", "a", "i", ".", "s", "t", "e", "a", "m",
          "s", "t", "a", "t", "i", "c", ".", "c", "o", "m", "/", "s",
          "t", "e", "a", "m", "/", "a", "p", "p", "s", "/", "1", "1",
          "0", "7", "3", "2", "0", "/", "h", "e", "a", "d", "e", "r",
          ".", "j", "p", "g">>)

UpperCase ==
    <<"A", "B", "C", "D", "E", "F", "G", "H", "I", "J", "K", "L", "M",
      "N", "O", "P", "Q", "R", "S", "T", "U", "V", "W", "X", "Y", "Z">>
LowerCase ==
    <<"a", "b", "c", "d", "e", "f", "g", "h", "i", "j", "k", "l", "m",
      "n", "o", "p", "q", "r", "s", "t", "u", "v", "w", "x", "y", "z">>

\* str.lower() on the characters of a URL
LowerChar(c) ==
    IF \E k \in 1..Len(UpperCase) : UpperCase[k] = c
    THEN LowerCase[CHOOSE k \in 1..Len(UpperCase) : UpperCase[k] = c]
    ELSE c
Lower(s) == [k \in 1..Len(s) |-> LowerChar(s[k])]

\* pat in s
Contains(s, pat) == \E i \in 1..Len(s) : OccursAt(s, pat, i)

\* lines 298 and 302: the terms that mark an icon or a header image
SkipTerms ==
    {<<"i", "c", "o", "n">>, <<"a", "v", "a", "t", "a", "r">>,
     <<"t", "h", "u", "m", "b">>, <<"s", "m", "a", "l", "l">>,
     <<"c", "a", "p", "s", "u", "l", "e", "_", "1", "8", "4", "x", "6", "9">>}
HeaderTerm == <<"h", "e", "a", "d", "e", "r">>

\* lines 298-303: img_url is skipped
IsSkipped(img_url) ==
    \/ \E skip_term \in SkipTerms : Contains(Lower(UrlChars[img_url]), skip_term)
    \/ Contains(Lower(UrlChars[img_url]), HeaderTerm)
KeepImage(img_url) == ~IsSkipped(img_url)

\* line 291: list(dict.fromkeys(all_images))
Unique(all_images) ==
    LET first == {k \in 1..Len(all_images) :
                     \A j \in 1..(k - 1) : all_images[j] # all_images[k]}
        Nth(n) == CHOOSE k \in first : Cardinality({j \in first : j <= k}) = n
    IN  [n \in 1..Cardinality(first) |-> all_images[Nth(n)]]

\* a page as the patterns see it: clan, what line 275 finds; other, what
\* lines 285-287 find, pattern after pattern
OkPage(clan, other) == [kind |-> "ok", clan |-> clan, other |-> other]
\* a status other than 200; an exception of session.get or response.text; the
\* timeout of 10 seconds
PageStatus == [kind |-> "status", clan |-> <<ClanImage>>, other |-> <<>>]
PageError == [kind |-> "error", clan |-> <<>>, other |-> <<>>]
PageTimeout == [kind |-> "timeout", clan |-> <<>>, other |-> <<>>]

\* a scan that takes the first URL found
ScanPageFirstFound(page) ==
    IF page.clan \o page.other = <<>> THEN NoImage
    ELSE Unique(page.clan \o page.other)[1]

\* lines 273-312: the image of a page that was read
ScanPage(page) ==
    LET all_images == page.clan \o page.other
        unique_images == Unique(all_images)
        content_images == SelectSeq(unique_images, KeepImage)
    IN  IF all_images = <<>> THEN NoImage
        ELSE IF content_images # <<>> THEN content_images[1]
        ELSE unique_images[1]

\* a fetch of the page whose exceptions are not caught
ImageFetchReturnsUncaught(page) == page.kind \in {"ok", "status"}

\* lines 239-317: the call returns, whatever the fetch of the page met
\* (except clause of lines 314-315)
ImageFetchReturns(page) == page.kind \in {"ok", "status", "error", "timeout"}

\* lines 239-317, for a URL that is not of steamcommunity.com (line 249)
GetImageFromSteamUrl(url, page) ==
    IF page.kind = "ok" THEN ScanPage(page) ELSE NoImage

\* lines 191-233, on a content that holds no "http": every pattern asks for
\* one, and the contents of the items of the model hold none
ExtractImageFromContent(content) == NoImage

\* line 142: the page of the item is asked for
AsksPage(item) ==
    /\ ExtractImageFromContent(Get(item, "contents", <<>>)) = NoImage
    /\ Get(item, "url", "") # ""

\* lines 139-143: image_url of an item whose page answers with page
ResolveImage(item, page) ==
    IF AsksPage(item) THEN GetImageFromSteamUrl(item.url, page)
    ELSE ExtractImageFromContent(Get(item, "contents", <<>>))

\* lines 106-158, with the pages of the items: an exception of line 143 would
\* reach the except clause of lines 154-155
GetGameNewsOverPages(r, pages) ==
    IF \E k \in 1..Len(Response[r].items) :
           AsksPage(Response[r].items[k]) /\ ~ImageFetchReturns(pages[k])
    THEN <<>>
    ELSE GetGameNews(r, [k \in 1..Len(Response[r].items) |->
                            ResolveImage(Response[r].items[k], pages[k])])

\* the answers to the HEAD request of line 328: 200, another status, an
\* exception, the timeout of the session
Probes == {"200", "404", "error", "timeout"}

\* lines 323-334
GetGameHeaderImage(probe) == IF probe = "200" THEN HeaderImage ELSE NoImage

(***************************************************************************)
(* The ledger: load_published_news, save_published_news                    *)
(***************************************************************************)
AbsentFile == [kind |-> "absent", ids |-> <<>>]
\* a file that json.load rejects, such as one cut short while written
CorruptFile == [kind |-> "corrupt", ids |-> <<>>]
\* a file that open(.., 'r') refuses, such as one the process may not read
UnreadableFile == [kind |-> "unreadable", ids |-> <<>>]
JsonFile(list) == [kind |-> "json", ids |-> list]

\* a list that holds two elements of the set at most
SetToListCapped(S) ==
    IF S = {} THEN <<>>
    ELSE LET x == CHOOSE x \in S : TRUE IN
         IF S = {x} THEN <<x>> ELSE <<x, CHOOSE y \in S \ {x} : TRUE>>

\* list(a_set): the elements in some order
RECURSIVE SetToList(_)
SetToList(S) ==
    IF S = {} THEN <<>>
    ELSE LET x == CHOOSE x \in S : TRUE IN <<x>> \o SetToList(S \ {x})

\* set(a_list)
ListToSet(l) == {l[k] : k \in DOMAIN l}

\* lines 504-512: what load_published_news returns
LoadPublishedNews(file) ==
    IF file.kind = "json" THEN ListToSet(file.ids) ELSE {}

\* load_published_news without the except clause of lines 510-512
LoadReturnsUncaught(file) == file.kind \in {"absent", "json"}

\* the files on which load_published_news returns to __init__ and does not
\* raise: line 509, line 508, and lines 510-512 when open or json.load raises
LoadReturns(file) == file.kind \in {"absent", "json", "corrupt", "unreadable"}

SaveOutcomes == {"ok", "open_fails", "write_fails"}

\* the file after save_published_news: open(.., 'w') may fail and leave the
\* file alone; json.dump may fail after open has emptied the file
SavePublishedNews(file, pubs, outcome) ==
    IF outcome = "ok" THEN JsonFile(SetToList(pubs))
    ELSE IF outcome = "open_fails" THEN file
    ELSE CorruptFile

InitialFiles == {AbsentFile, CorruptFile, UnreadableFile, JsonFile(<<>>),
                 JsonFile(<<"b">>), JsonFile(<<"42">>)}

(***************************************************************************)
(* SteamNewsBot: the poller (auto_news_checker) and the auto commands      *)
(***************************************************************************)
NoChannel == 0
Channels == {1, 2}
Users == {1}
\* the channels /steam-news is used in
RequestChannels == {2}

\* user_cooldowns = {}
NoCooldowns == [u \in Users |-> NoTime]

\* no _process_and_post_news task in flight; asked counts the /steam-news
\* commands received
NoRequest ==
    [pc |-> "none", channel |-> NoChannel, news_items |-> <<>>, src |-> <<>>,
     i |-> 0, asked |-> 0]

IdlePoller(pc) ==
    [pc |-> pc, channel |-> NoChannel, news_items |-> <<>>, src |-> <<>>,
     header |-> NoImage, i |-> 0, posted |-> <<>>, before |-> {},
     feed |-> NoResponse, faults |-> 0]

\* the poller of a process whose constructor ran over the ledger file: it
\* waits for on_ready, unless line 41 raised and the process is gone
StartedPoller(file) ==
    IdlePoller(IF LoadReturns(file) THEN "waiting" ELSE "crashed")

\* a loop that an exception of the body stops for good
AfterCycleLoud(outcome) ==
    IdlePoller(IF outcome = "raised" THEN "stopped" ELSE "idle")

\* lines 525-631: the loop after a cycle that ended with this outcome: the
\* body returns, also from the except clause of lines 630-631, and the loop
\* waits for its next tick
AfterCycle(outcome) == IdlePoller("idle")

\* the record of a cycle that ends: what it was given, what it did
CycleRecord(outcome, after, posted, faults) ==
    [life |-> lifetime, outcome |-> outcome, channel |-> poller.channel,
     feed |-> poller.feed, before |-> poller.before, after |-> after,
     posted |-> posted, faults |-> faults]

\* line 550: news_id = f"{news['gid']}", for a news that has the key
NewsId(news) == news.gid

\* lines 562-609: the embed of one news
Embed(news, translated_title, translated_content, game_header_image) ==
    [title |-> translated_title,
     description |-> translated_content
                     \o (IF Len(news.contents) > BODY_LIMIT
                         THEN <<".", ".", ".">> ELSE <<>>),
     timestamp |-> news.date,
     image |-> IF HasKey(news, "image") /\ news.image # NoImage THEN news.image
               ELSE game_header_image,
     thumbnail |-> IF HasKey(news, "image") /\ news.image # NoImage
                   THEN game_header_image ELSE NoImage,
     original_title |-> IF news.title # translated_title
                           /\ Len(news.title) > ORIGINAL_TITLE_MIN
                        THEN news.title ELSE <<>>,
     author |-> IF news.author # "" /\ news.author # "Steam" THEN news.author ELSE "",
     source |-> news.url]

SendFates == {"sent", "send_fails", "killed_after_send"}

\* lines 558-559: the two translations of a turn, from the throttle state g;
\* title_ok, body_ok: the translations go through
Translations(news, g, title_ok, body_ok) ==
    LET body == Prefix(news.contents, BODY_LIMIT) IN
    [title |-> TranslateText(news.title, title_ok),
     content |-> TranslateText(body, body_ok),
     gate |-> GateAfterCall(GateAfterCall(g, news.title), body),
     faults |-> (IF ~title_ok /\ ~IsBlank(news.title) THEN 1 ELSE 0)
                + (IF ~body_ok /\ ~IsBlank(body) THEN 1 ELSE 0)]

\* the turn with the article marked as published before anything is sent
ItemTurnCommittingFirst(news, src, channel, header, pubs, file, g, tr, fate, save) ==
    [kind |-> IF HasKey(news, "gid") THEN "seen" ELSE "raised",
     pubs |-> pubs \cup {src}, file |-> file, gate |-> g, msgs |-> <<>>,
     faults |-> 0]

\* the turn with the two translations asked for before line 550
ItemTurnTranslatingFirst(news, src, channel, header, pubs, file, g, tr, fate, save) ==
    IF ~HasKey(news, "gid")
    THEN [kind |-> "raised", pubs |-> pubs, file |-> file, gate |-> tr.gate,
          msgs |-> <<>>, faults |-> 0]
    ELSE [kind |-> "seen", pubs |-> pubs, file |-> file, gate |-> tr.gate,
          msgs |-> <<>>, faults |-> 0]

\* lines 550-625: one turn of the loop over the news, for the news at hand,
\* src being the upstream identifier of the article it was made from.
\* g: the throttle state; tr: what lines 558-559 bring when they are
\* reached; fate: what becomes of channel.send (and whether the process is
\* killed as it returns); save: what becomes of the write of the ledger file.
\* kind is "raised" when the turn raises to line 630.
ItemTurn(news, src, channel, header, pubs, file, g, tr, fate, save) ==
    IF ~HasKey(news, "gid")
    THEN [kind |-> "raised", pubs |-> pubs, file |-> file, gate |-> g,
          msgs |-> <<>>, faults |-> 0]
    ELSE LET news_id == NewsId(news) IN
         IF news_id \in pubs
         THEN [kind |-> "seen", pubs |-> pubs, file |-> file, gate |-> g,
               msgs |-> <<>>, faults |-> 0]
         ELSE LET msg == [life |-> lifetime, via |-> "auto", channel |-> channel,
                          src |-> src, kind |-> "embed",
                          embed |-> Embed(news, tr.title, tr.content, header)]
                  pubs2 == pubs \cup {news_id}
              IN  IF fate = "send_fails"
                  THEN [kind |-> "send_failed", pubs |-> pubs, file |-> file,
                        gate |-> tr.gate, msgs |-> <<>>, faults |-> tr.faults + 1]
                  ELSE IF fate = "killed_after_send"
                  THEN [kind |-> "killed", pubs |-> pubs, file |-> file,
                        gate |-> tr.gate, msgs |-> <<msg>>,
                        faults |-> tr.faults + 1]
                  ELSE [kind |-> "posted", pubs |-> pubs2,
                        file |-> SavePublishedNews(file, pubs2, save),
                        gate |-> [tr.gate EXCEPT !.now = tr.gate.now + ITEM_DELAY],
                        msgs |-> <<msg>>,
                        faults |-> tr.faults + (IF save = "ok" THEN 0 ELSE 1)]

\* the turn for this news reaches line 558: the outside is asked something
ReachesTranslation(news, pubs) ==
    IF HasKey(news, "gid") THEN NewsId(news) \notin pubs ELSE FALSE

\* SteamNewsBot.__init__ and Translator.__init__ of a process started at
\* time t over the ledger file
Started(t, file) ==
    /\ published_news' = LoadPublishedNews(file)
    /\ auto_channel_id' = NoChannel
    /\ poller' = StartedPoller(file)
    /\ ready' = FALSE
    /\ user_cooldowns' = NoCooldowns
    /\ ondemand' = [NoRequest EXCEPT !.asked = ondemand.asked]
    /\ request_count' = 0
    /\ reset_time' = t
    /\ last_request_time' = 0

\* on_ready, lines 490-493: the loop is started unless it is running
OnReady ==
    /\ poller' = IF poller.pc = "waiting" THEN IdlePoller("idle") ELSE poller
    /\ ready' = TRUE
    /\ UNCHANGED <<published_news, ledger_file, auto_channel_id, sent, cycle_log,
                   lifetime>>
    /\ UNCHANGED <<user_cooldowns, trouble, ondemand>>
    /\ UNCHANGED gateVars
    /\ UNCHANGED <<call, fetch, asks, saved>>

\* setup_auto_slash, line 644
SetupAuto(c) ==
    /\ auto_channel_id' = c
    /\ UNCHANGED <<published_news, ledger_file, poller, sent, cycle_log, lifetime>>
    /\ UNCHANGED <<user_cooldowns, trouble, ondemand>>
    /\ UNCHANGED gateVars
    /\ UNCHANGED <<call, fetch, asks, saved, ready>>

\* a stop-auto that also forgets the published news, against which C6 is
\* tried
StopAutoForgets ==
    /\ auto_channel_id' = NoChannel
    /\ published_news' = {}
    /\ UNCHANGED <<ledger_file, poller, sent, cycle_log, lifetime>>
    /\ UNCHANGED <<user_cooldowns, trouble, ondemand>>
    /\ UNCHANGED gateVars
    /\ UNCHANGED <<call, fetch, asks, saved, ready>>

\* stop_auto_slash, lines 684-694
StopAuto ==
    /\ auto_channel_id' = NoChannel
    /\ UNCHANGED <<published_news, ledger_file, poller, sent, cycle_log, lifetime>>
    /\ UNCHANGED <<user_cooldowns, trouble, ondemand>>
    /\ UNCHANGED gateVars
    /\ UNCHANGED <<call, fetch, asks, saved, ready>>

\* a loop that is started with the process and does not wait for the client
CanTickBeforeReady(p, rdy) == p.pc \in {"idle", "waiting"}

\* lines 491-492 and 633-636: on_ready starts the loop, and the loop waits
\* until the client is ready before its first iteration
CanTick(p, rdy) == p.pc = "idle" /\ rdy

\* a cycle that goes on without a channel
SkipsCycleNever(channel_id, resolved) == FALSE

\* lines 526-533: the two returns of a cycle that has no channel to post to
SkipsCycle(channel_id, resolved) == channel_id = NoChannel \/ ~resolved

\* auto_news_checker, lines 525-538: a cycle starts, up to the await of
\* get_game_news; resolved tells whether get_channel finds the channel
Tick ==
    /\ CanTick(poller, ready)
    /\ Len(cycle_log) < MaxCycles
    /\ \E resolved \in BOOLEAN :
         LET started == [IdlePoller("fetching") EXCEPT
                            !.channel = auto_channel_id,
                            !.before = published_news]
         IN  IF SkipsCycle(auto_channel_id, resolved)
             THEN /\ cycle_log' = Append(cycle_log,
                        [life |-> lifetime,
                         outcome |-> IF auto_channel_id = NoChannel
                                     THEN "no_channel" ELSE "unresolved",
                         channel |-> auto_channel_id, feed |-> NoResponse,
                         before |-> published_news, after |-> published_news,
                         posted |-> <<>>, faults |-> 0])
                  /\ UNCHANGED poller
             ELSE /\ poller' = started
                  /\ UNCHANGED cycle_log
    /\ UNCHANGED <<published_news, ledger_file, auto_channel_id, sent, lifetime>>
    /\ UNCHANGED <<user_cooldowns, trouble, ondemand>>
    /\ UNCHANGED gateVars
    /\ UNCHANGED <<call, fetch, asks, saved, ready>>

\* a loop over all the items that get_game_news returned
ConsideredAll(news_items) == news_items

\* line 549: news_items[:Config.MAX_NEWS_ITEMS], what the loop ranges over
Considered(news_items) ==
    SubSeq(news_items, 1, Min(Len(news_items), MAX_NEWS_ITEMS))

\* lines 538-549: get_game_news returns and, when it brought news,
\* get_game_header_image returns and the loop over the news is entered
FetchNews ==
    /\ poller.pc = "fetching"
    /\ \E r \in Responses, h \in {NoImage, HeaderImage} :
       \E images \in ImagesOf(r) :
         LET news_items == GetGameNews(r, images) IN
         IF news_items = <<>>
         THEN /\ cycle_log' = Append(cycle_log,
                    [CycleRecord("nothing", published_news, <<>>, 0)
                         EXCEPT !.feed = r])
              /\ poller' = AfterCycle("nothing")
         ELSE /\ poller' = [poller EXCEPT !.pc = "items", !.feed = r,
                               !.news_items = Considered(news_items),
                               !.src = Considered(SourceIds(r)),
                               !.header = h, !.i = 1]
              /\ UNCHANGED cycle_log
    /\ UNCHANGED <<published_news, ledger_file, auto_channel_id, sent, lifetime>>
    /\ UNCHANGED <<user_cooldowns, trouble, ondemand>>
    /\ UNCHANGED gateVars
    /\ UNCHANGED <<call, fetch, asks, saved, ready>>

\* lines 549-631: one turn of the loop over news_items[:MAX_NEWS_ITEMS],
\* and the end of the cycle after the last turn or when the turn raises
PollerItem ==
    /\ poller.pc = "items"
    /\ LET news == poller.news_items[poller.i]
           asked == ReachesTranslation(news, published_news)
       IN
       \E title_ok, body_ok \in (IF asked THEN BOOLEAN ELSE {TRUE}) :
       LET tr == Translations(news, GateState, title_ok, body_ok) IN
       \E fate \in (IF asked THEN SendFates ELSE {"sent"}) :
       \E save \in (IF asked /\ fate = "sent" THEN SaveOutcomes ELSE {"ok"}) :
         LET n == Min(Len(poller.news_items), MAX_NEWS_ITEMS)
             failed == (IF title_ok THEN 0 ELSE 1) + (IF body_ok THEN 0 ELSE 1)
                       + (IF fate = "send_fails" THEN 1 ELSE 0)
                       + (IF save = "ok" THEN 0 ELSE 1)
             turn == ItemTurn(news, poller.src[poller.i],
                              poller.channel, poller.header, published_news,
                              ledger_file, GateState, tr, fate, save)
             faults == poller.faults + turn.faults
             posted == poller.posted \o turn.msgs
         IN  /\ trouble + failed <= MaxFaults
             /\ trouble' = trouble + failed
             /\ sent' = sent \o turn.msgs
             /\ saved' = IF turn.kind = "posted" THEN save ELSE saved
             /\ now' = turn.gate.now
             /\ IF turn.kind = "killed"
                THEN /\ Started(turn.gate.now, turn.file)
                     /\ ledger_file' = turn.file
                     /\ lifetime' = lifetime + 1
                     /\ UNCHANGED cycle_log
                ELSE /\ published_news' = turn.pubs
                     /\ ledger_file' = turn.file
                     /\ request_count' = turn.gate.request_count
                     /\ reset_time' = turn.gate.reset_time
                     /\ last_request_time' = turn.gate.last_request_time
                     /\ UNCHANGED <<auto_channel_id, lifetime, user_cooldowns,
                                    ondemand, ready>>
                     /\ IF turn.kind = "raised" \/ poller.i >= n
                        THEN /\ cycle_log' = Append(cycle_log,
                                   CycleRecord(IF turn.kind = "raised"
                                               THEN "raised" ELSE "done",
                                               turn.pubs, posted, faults))
                             /\ poller' = AfterCycle(IF turn.kind = "raised"
                                                     THEN "raised" ELSE "done")
                        ELSE /\ poller' = [poller EXCEPT !.i = poller.i + 1,
                                                         !.posted = posted,
                                                         !.faults = faults]
                             /\ UNCHANGED cycle_log
         /\ (fate = "killed_after_send" => lifetime < MaxRestarts)
    /\ UNCHANGED <<task, admits, call, fetch, asks>>

\* the process is killed and started again
Restart ==
    /\ lifetime < MaxRestarts
    /\ lifetime' = lifetime + 1
    /\ Started(now, ledger_file)
    /\ UNCHANGED <<ledger_file, sent, cycle_log, trouble, now, task, admits, call, fetch, asks,
                   saved>>

\* a check that lets every command through
CheckRateLimitAlways(cooldowns, u, t) == TRUE

\* check_rate_limit: the user may ask at time t
CheckRateLimit(cooldowns, u, t) ==
    ~(cooldowns[u] # NoTime /\ t - cooldowns[u] < RATE_LIMIT_SECONDS)

\* steam_news_slash: /steam-news by user u in channel c
SteamNewsSlash(u, c) ==
    /\ ondemand.pc = "none"
    /\ ondemand.asked < MaxRequests
    /\ IF CheckRateLimit(user_cooldowns, u, now)
       THEN /\ user_cooldowns' = [user_cooldowns EXCEPT ![u] = now]
            /\ ondemand' = [ondemand EXCEPT !.pc = "search", !.channel = c,
                                            !.asked = ondemand.asked + 1]
       ELSE /\ ondemand' = [ondemand EXCEPT !.asked = ondemand.asked + 1]
            /\ UNCHANGED user_cooldowns
    /\ UNCHANGED <<published_news, ledger_file, auto_channel_id, poller, sent,
                   cycle_log, lifetime, trouble>>
    /\ UNCHANGED gateVars
    /\ UNCHANGED <<call, fetch, asks, saved, ready>>

\* what the feed answers to the requests that are followed
RequestResponses == {"Feed42", "NetworkError"}

\* _process_and_post_news, lines 192-222: search_game, get_game_news and
\* get_game_header_image return
OnDemandFetch ==
    /\ ondemand.pc = "search"
    /\ \E found \in BOOLEAN, r \in RequestResponses :
       \E images \in ImagesOf(r) :
         LET news_items == IF found THEN GetGameNews(r, images) ELSE <<>>
         IN  ondemand' =
               IF news_items = <<>>
               THEN [NoRequest EXCEPT !.asked = ondemand.asked]
               ELSE [ondemand EXCEPT !.pc = "items", !.news_items = news_items,
                                     !.src = SourceIds(r), !.i = 1]
    /\ UNCHANGED <<published_news, ledger_file, auto_channel_id, poller, sent,
                   cycle_log, lifetime, user_cooldowns, trouble>>
    /\ UNCHANGED gateVars
    /\ UNCHANGED <<call, fetch, asks, saved, ready>>

\* channel.send(embed=embed) goes through; it fails and the text goes
\* through; both fail
RequestSendFates == {"embed", "text", "nothing"}

\* _process_and_post_news, lines 225-300: one turn of the loop over
\* news_items[:MAX_NEWS_ITEMS]; the text of the message is not kept
OnDemandItem ==
    /\ ondemand.pc = "items"
    /\ \E fate \in RequestSendFates :
         LET n == Min(Len(ondemand.news_items), MAX_NEWS_ITEMS)
             failed == IF fate = "embed" THEN 0 ELSE IF fate = "text" THEN 1 ELSE 2
             news == ondemand.news_items[ondemand.i]
             g1 == GateAfterCall(GateState, news.title)
             g2 == GateAfterCall(g1, Prefix(news.contents, BODY_LIMIT))
             last == ondemand.i >= n
             msg == [life |-> lifetime, via |-> "ondemand",
                     channel |-> ondemand.channel, src |-> ondemand.src[ondemand.i],
                     kind |-> fate]
         IN  /\ trouble + failed <= MaxFaults
             /\ trouble' = trouble + failed
             /\ sent' = IF fate = "nothing" THEN sent ELSE Append(sent, msg)
             /\ now' = IF last THEN g2.now ELSE g2.now + REQUEST_ITEM_DELAY
             /\ request_count' = g2.request_count
             /\ reset_time' = g2.reset_time
             /\ last_request_time' = g2.last_request_time
             /\ ondemand' = IF last THEN [NoRequest EXCEPT !.asked = ondemand.asked]
                            ELSE [ondemand EXCEPT !.i = ondemand.i + 1]
    /\ UNCHANGED <<published_news, ledger_file, auto_channel_id, poller,
                   cycle_log, lifetime, user_cooldowns>>
    /\ UNCHANGED <<task, admits, call, fetch, asks, saved, ready>>

BotInit ==
    /\ now = StartTime
    /\ last_request_time = 0
    /\ request_count = 0
    /\ reset_time = StartTime
    /\ task = <<>>
    /\ admits = NoAdmits(FALSE)
    /\ ledger_file \in InitialFiles
    /\ published_news = LoadPublishedNews(ledger_file)
    /\ auto_channel_id = NoChannel
    /\ poller = StartedPoller(ledger_file)
    /\ sent = <<>>
    /\ cycle_log = <<>>
    /\ lifetime = 0
    /\ user_cooldowns = NoCooldowns
    /\ trouble = 0
    /\ ondemand = NoRequest
    /\ call = NoCall /\ fetch = NoFetch /\ asks = NoAsks
    /\ saved = "none"
    /\ ready = FALSE

BotNext ==
    \/ OnReady
    \/ \E c \in Channels : SetupAuto(c)
    \/ StopAuto
    \/ Tick
    \/ FetchNews
    \/ PollerItem
    \/ Restart
    \/ \E u \in Users, c \in RequestChannels : SteamNewsSlash(u, c)
    \/ OnDemandFetch
    \/ OnDemandItem

Spec == BotInit /\ [][BotNext]_vars

\* the bot with its awaits returning: what get_game_news and
\* get_game_header_image wait for is bounded by the session timeout, and a
\* turn of the loop over the news ends with one of its outcomes
\* The process is first started over no ledger file or over one that holds
\* an identifier.
FairFiles == {AbsentFile, JsonFile(<<"b">>)}
FairInit == BotInit /\ ledger_file \in FairFiles
SpecFair ==
    FairInit /\ [][BotNext]_vars /\ WF_vars(FetchNews) /\ WF_vars(PollerItem)

(***************************************************************************)
(* One caller of the throttle at a time                                    *)
(***************************************************************************)
\* the bot's part of the state while only the throttle is followed
BotAtRest ==
    /\ ledger_file = AbsentFile
    /\ published_news = {}
    /\ auto_channel_id = NoChannel
    /\ poller = IdlePoller("waiting")
    /\ sent = <<>>
    /\ cycle_log = <<>>
    /\ lifetime = 0
    /\ user_cooldowns = NoCooldowns
    /\ trouble = 0
    /\ ondemand = NoRequest

SeqCallers == {1}

SeqInit == GateInit(SeqCallers, FALSE) /\ BotAtRest /\ call = NoCall /\ fetch = NoFetch /\ asks = NoAsks /\ saved = "none" /\ ready = FALSE

SeqNext == GateNext(SeqCallers)

GateSeq == SeqInit /\ [][SeqNext]_vars

\* the same, with rolling intervals observed
RollInit == GateInit(SeqCallers, TRUE) /\ BotAtRest /\ call = NoCall /\ fetch = NoFetch /\ asks = NoAsks /\ saved = "none" /\ ready = FALSE

GateRoll == RollInit /\ [][SeqNext]_vars

(***************************************************************************)
(* Several pipelines calling the one Translator of the bot                 *)
(***************************************************************************)
ConcCallers == {1, 2}

ConcInit == GateInit(ConcCallers, FALSE) /\ BotAtRest /\ call = NoCall /\ fetch = NoFetch /\ asks = NoAsks /\ saved = "none" /\ ready = FALSE

ConcNext == GateNext(ConcCallers)

GateConc == ConcInit /\ [][ConcNext]_vars

(***************************************************************************)
(* One call of Translator.translate_text, from its text to what it returns *)
(***************************************************************************)
\* n letters
Letters(n) == [k \in 1..n |-> "a"]

\* the lengths of runs of letters around the limit
NearLimit == {MAX_TRANSLATION_LENGTH + d - 3 : d \in 0..4}

\* shorter runs: none, one letter, half the limit
FarFromLimit == {0, 1, MAX_TRANSLATION_LENGTH \div 2}

\* what stands between two runs of letters
Joints == {<<".", " ">>, <<".", "\n", " ">>, <<" ">>, <<".", ".", " ">>}

\* texts that fit without a cut, blank ones among them
ShortTexts ==
    {<<>>, <<" ">>, <<"\n", "\t">>, <<"a">>, <<" ", "a", ".", " ", " ", "b", "\r">>,
     <<".", " ", "a">>}

\* three runs of letters, a, b and c long, and what stands between them
ThreeRuns(a, j1, b, j2, c) == Letters(a) \o j1 \o Letters(b) \o j2 \o Letters(c)

\* the texts translate_text is called with: short ones, and long ones whose
\* first or second run of letters ends around the limit, or far from it
CallTexts ==
    ShortTexts
    \cup {ThreeRuns(a, j1, b, j2, c) :
             a \in NearLimit \cup FarFromLimit, b \in FarFromLimit,
             c \in FarFromLimit, j1 \in Joints, j2 \in Joints}
    \cup {ThreeRuns(a, j1, b, j2, c) :
             a \in {0, 1}, b \in NearLimit, c \in {0, 1},
             j1 \in Joints, j2 \in Joints}

\* where a call raises: nowhere, in _apply_rate_limit (line 32), in
\* _prepare_text_for_translation (line 35), in _translate_sync (line 41)
CallFaults == {"none", "throttle", "prepare", "translator"}

\* lines 41-48: the payloads a call hands to the external translator
Handed(text, fault) ==
    IF ~IsBlank(text) /\ fault \in {"none", "translator"}
    THEN <<Payload(text)>> ELSE <<>>

\* translate_text, lines 22-55, called with the text chosen at the start
TranslateCall(fault) ==
    /\ call.pc = "given"
    /\ call' = [call EXCEPT !.pc = "returned", !.fault = fault,
                            !.handed = Handed(call.text, fault),
                            !.result = TranslateText(call.text, fault = "none")]
    /\ LET g == IF fault = "throttle" THEN GateState
                ELSE GateAfterCall(GateState, call.text)
       IN  /\ now' = g.now
           /\ request_count' = g.request_count
           /\ reset_time' = g.reset_time
           /\ last_request_time' = g.last_request_time
    /\ UNCHANGED <<task, admits>>
    /\ UNCHANGED <<published_news, ledger_file, auto_channel_id, poller, sent,
                   cycle_log, lifetime, user_cooldowns, trouble, ondemand, saved, ready, fetch, asks>>

CallInit ==
    /\ GateInit(SeqCallers, FALSE)
    /\ BotAtRest
    /\ saved = "none"
    /\ ready = FALSE
    /\ fetch = NoFetch /\ asks = NoAsks
    /\ \E text \in CallTexts : call = [NoCall EXCEPT !.pc = "given", !.text = text]

CallNext == \E fault \in CallFaults : TranslateCall(fault)

Calls == CallInit /\ [][CallNext]_vars

(***************************************************************************)
(* One call of SteamAPI.get_game_news and of get_game_header_image         *)
(***************************************************************************)
\* the pages of the model: no URL; one image; an icon before an image, twice;
\* a header image alone; an icon and a thumbnail; and the fetches that fail
Pages ==
    {OkPage(<<>>, <<>>), OkPage(<<ClanImage>>, <<>>),
     OkPage(<<ClanIcon, ClanIcon, ClanImage>>, <<SharedPic>>),
     OkPage(<<>>, <<HeaderImage>>), OkPage(<<ClanIcon>>, <<SharedThumb>>),
     PageStatus, PageError, PageTimeout}

\* get_game_news(1107320), lines 106-158, over the answer and the pages
\* chosen at the start
FetchCall ==
    /\ fetch.pc = "given"
    /\ fetch' = [fetch EXCEPT !.pc = "fetched",
                              !.result = GetGameNewsOverPages(fetch.r, fetch.pages)]
    /\ UNCHANGED <<published_news, ledger_file, auto_channel_id, poller, sent,
                   cycle_log, lifetime, user_cooldowns, trouble, ondemand, call,
                   saved, ready, asks>>
    /\ UNCHANGED gateVars

\* get_game_header_image(1107320), lines 319-334
HeaderCall(probe) ==
    /\ fetch.pc = "fetched"
    /\ fetch' = [fetch EXCEPT !.pc = "probed", !.probe = probe,
                              !.header = GetGameHeaderImage(probe)]
    /\ UNCHANGED <<published_news, ledger_file, auto_channel_id, poller, sent,
                   cycle_log, lifetime, user_cooldowns, trouble, ondemand, call,
                   saved, ready, asks>>
    /\ UNCHANGED gateVars

FetchInit ==
    /\ GateInit(SeqCallers, FALSE)
    /\ BotAtRest
    /\ call = NoCall
    /\ saved = "none"
    /\ ready = FALSE
    /\ asks = NoAsks
    /\ \E r \in Responses :
       \E pages \in [1..Len(Response[r].items) -> Pages] :
          fetch = [NoFetch EXCEPT !.pc = "given", !.r = r, !.pages = pages]

FetchNext == FetchCall \/ \E probe \in Probes : HeaderCall(probe)

Fetches == FetchInit /\ [][FetchNext]_vars

(***************************************************************************)
(* SteamNewsBot.check_rate_limit alone, called for two requesters          *)
(***************************************************************************)
Requesters == {1, 2}

\* check_rate_limit(user_id), lines 455-465, called at line 62 or 167;
\* asks keeps the call, what it returned, the timestamps it found and the
\* times of the calls that returned True
CheckRateLimitCall(user_id) ==
    /\ asks.n < MaxAsks
    /\ LET ok == CheckRateLimit(user_cooldowns, user_id, now) IN
       /\ user_cooldowns' = IF ok THEN [user_cooldowns EXCEPT ![user_id] = now]
                            ELSE user_cooldowns
       /\ asks' = [n |-> asks.n + 1, user_id |-> user_id,
                   returned |-> ok, before |-> user_cooldowns,
                   accepted |-> IF ok
                                THEN [asks.accepted EXCEPT
                                         ![user_id] = Append(@, now)]
                                ELSE asks.accepted]
    /\ UNCHANGED <<published_news, ledger_file, auto_channel_id, poller, sent,
                   cycle_log, lifetime, trouble, ondemand, call, fetch, saved,
                   ready>>
    /\ UNCHANGED gateVars

CooldownInit ==
    /\ GateInit(SeqCallers, FALSE)
    /\ ledger_file = AbsentFile
    /\ published_news = {}
    /\ auto_channel_id = NoChannel
    /\ poller = IdlePoller("waiting")
    /\ sent = <<>>
    /\ cycle_log = <<>>
    /\ lifetime = 0
    /\ user_cooldowns = [u \in Requesters |-> NoTime]
    /\ trouble = 0
    /\ ondemand = NoRequest
    /\ call = NoCall
    /\ fetch = NoFetch
    /\ saved = "none"
    /\ ready = FALSE
    /\ asks = [NoAsks EXCEPT !.before = [u \in Requesters |-> NoTime],
                             !.accepted = [u \in Requesters |-> <<>>]]

CooldownNext == Advance \/ \E user_id \in Requesters : CheckRateLimitCall(user_id)

Cooldowns == CooldownInit /\ [][CooldownNext]_vars

(***************************************************************************)
(* The ledger alone: the commits of lines 616-617 and the reloads of line  *)
(* 41, on every ledger file and with every outcome of the write            *)
(***************************************************************************)
\* the identifiers that are committed
LedgerIds == {"42", "a", "b", "c"}

\* lines 616-617: published_news.add(news_id), save_published_news(), for a
\* news_id that line 552 found new
Commit(news_id, outcome) ==
    /\ news_id \notin published_news
    /\ published_news' = published_news \cup {news_id}
    /\ ledger_file' = SavePublishedNews(ledger_file, published_news', outcome)
    /\ saved' = outcome
    /\ UNCHANGED <<auto_channel_id, poller, sent, cycle_log, lifetime,
                   user_cooldowns, trouble, ondemand, call, fetch, asks, ready>>
    /\ UNCHANGED gateVars

\* line 41 in a process started again over the file
Reload ==
    /\ published_news' = LoadPublishedNews(ledger_file)
    /\ saved' = "none"
    /\ UNCHANGED <<ledger_file, auto_channel_id, poller, sent, cycle_log,
                   lifetime, user_cooldowns, trouble, ondemand, call, fetch, asks, ready>>
    /\ UNCHANGED gateVars

LedgerInit ==
    /\ GateInit(SeqCallers, FALSE)
    /\ ledger_file \in InitialFiles
    /\ published_news = LoadPublishedNews(ledger_file)
    /\ auto_channel_id = NoChannel
    /\ poller = StartedPoller(ledger_file)
    /\ sent = <<>>
    /\ cycle_log = <<>>
    /\ lifetime = 0
    /\ user_cooldowns = NoCooldowns
    /\ trouble = 0
    /\ ondemand = NoRequest
    /\ call = NoCall /\ fetch = NoFetch /\ asks = NoAsks
    /\ saved = "none"
    /\ ready = FALSE

LedgerNext ==
    \/ \E news_id \in LedgerIds, outcome \in SaveOutcomes : Commit(news_id, outcome)
    \/ Reload

Ledger == LedgerInit /\ [][LedgerNext]_vars

(***************************************************************************)
(* The claims                                                              *)
(***************************************************************************)
\* the upstream identifiers of the messages a cycle posted, in order
Delivered(rec) == [k \in 1..Len(rec.posted) |-> rec.posted[k].src]

\* two cycles that ended one after the other in the same process, the
\* second starting from the published news the first left, both given the
\* response r
SameFeedTwice(a, b, r) ==
    /\ a.life = b.life
    /\ a.feed = r
    /\ b.feed = r
    /\ b.before = a.after

\* C1: a poll cycle that starts with no published news, has a channel, is
\* given the single article "42" and meets no failure posts exactly one
\* message, for "42", with the translated title and the translated body cut
\* at BODY_LIMIT, and "42" is among the published news when it ends.
C1_Feed42Delivered ==
    \A k \in DOMAIN cycle_log :
        LET rec == cycle_log[k]
            body == Prefix(CleanHtml(Item42.contents), BODY_LIMIT)
        IN  (rec.feed = "Feed42" /\ rec.before = {} /\ rec.faults = 0) =>
                /\ Len(rec.posted) = 1
                /\ rec.posted[1].src = "42"
                /\ rec.posted[1].channel = rec.channel
                /\ rec.posted[1].embed.title
                       = TranslateText(CleanHtml(Item42.title), TRUE)
                /\ rec.posted[1].embed.description = TranslateText(body, TRUE)
                /\ "42" \in rec.after

\* C1, the case at hand: such a cycle has ended by raising, with nothing
\* posted and nothing published
C1_Feed42Raised ==
    \E k \in DOMAIN cycle_log :
        /\ cycle_log[k].feed = "Feed42"
        /\ cycle_log[k].before = {}
        /\ cycle_log[k].faults = 0
        /\ cycle_log[k].channel # NoChannel
        /\ cycle_log[k].outcome = "raised"
        /\ cycle_log[k].posted = <<>>
        /\ cycle_log[k].after = {}

\* C2: every news that get_game_news returned to the poller or to an
\* on-demand request carries, under 'gid', the identifier of the upstream
\* item it was made from.
C2_NewsCarryGid ==
    /\ poller.pc = "items" =>
          \A k \in DOMAIN poller.news_items :
              /\ HasKey(poller.news_items[k], "gid")
              /\ poller.news_items[k].gid = poller.src[k]
    /\ ondemand.pc = "items" =>
          \A k \in DOMAIN ondemand.news_items :
              /\ HasKey(ondemand.news_items[k], "gid")
              /\ ondemand.news_items[k].gid = ondemand.src[k]

\* C2, the case at hand: the poller holds the news made from the upstream
\* item "42", and it has no 'gid'
C2_NewsWithoutGid ==
    /\ poller.pc = "items"
    /\ poller.src = <<"42">>
    /\ ~HasKey(poller.news_items[1], "gid")

C5_NewInFeedOrder ==
    \A k \in DOMAIN cycle_log :
        (/\ cycle_log[k].feed = "FeedABC"
         /\ cycle_log[k].before = {"b"}
         /\ cycle_log[k].faults = 0)
            => Delivered(cycle_log[k]) = <<"a", "c">>

\* C5, the case at hand: such a cycle has ended by raising, with nothing
\* posted
C5_FeedABCRaised ==
    \E k \in DOMAIN cycle_log :
        /\ cycle_log[k].feed = "FeedABC"
        /\ cycle_log[k].before = {"b"}
        /\ cycle_log[k].faults = 0
        /\ cycle_log[k].outcome = "raised"
        /\ cycle_log[k].posted = <<>>

\* C6: as long as the process is not restarted, no step of the poller, of
\* an on-demand request, of setup-auto or of stop-auto takes an identifier
\* out of published_news.
C6_PublishedNewsGrows ==
    [][lifetime' = lifetime => published_news \subseteq published_news']_vars

\* C6, the case at hand: in one process that holds published news, a poll
\* cycle ran over fetched news, an on-demand request posted a message, and
\* the channel that setup-auto had set was taken away by stop-auto
C6_AllHandlersRan ==
    /\ lifetime = 0
    /\ published_news # {}
    /\ cycle_log # <<>>
    /\ cycle_log[1].outcome = "raised"
    /\ auto_channel_id = NoChannel
    /\ ondemand.asked = 1
    /\ ondemand.pc = "none"
    /\ sent # <<>>

\* C8: a single sequential caller is let through at most
\* TRANSLATION_RATE_LIMIT times in any interval of WINDOW_SECONDS that
\* starts at one of its admissions.
C8_RollingWindowCap == admits.winCount <= TRANSLATION_RATE_LIMIT

\* C9: for a single sequential caller, two admissions in a row are at
\* least MIN_TRANSLATION_INTERVAL apart, also when the second follows the
\* sleep of the window's cap.
C9_MinSpacing == ~admits.tooClose

\* C9, the case at hand: the caller has just been let through after the
\* sleep of the window's cap
C9_AdmittedAfterCapSleep ==
    \E t \in DOMAIN task :
        /\ task[t].pc = "exec"
        /\ task[t].slept_cap
        /\ admits.last = now

\* C10: with several callers interleaving at the sleeps of the throttle,
\* the calls let through in one counting window stay within
\* TRANSLATION_RATE_LIMIT and any two admissions are at least
\* MIN_TRANSLATION_INTERVAL apart.
C10_SharedThrottleHolds ==
    /\ request_count <= TRANSLATION_RATE_LIMIT
    /\ admits.last # NoTime => ~admits.tooClose

\* C10, the case at hand: two callers are past the throttle at once, let
\* through at the same instant
C10_TwoAdmittedAtOnce ==
    /\ \A t \in ConcCallers : t \in DOMAIN task /\ task[t].pc = "exec"
    /\ admits.tooClose

\* C11: whatever the text, a payload that translate_text hands to the
\* external translator is at most MAX_TRANSLATION_LENGTH characters long
C11_PayloadWithinLimit ==
    \A k \in DOMAIN call.handed : Len(call.handed[k]) <= MAX_TRANSLATION_LENGTH

\* a text longer than the limit was handed over, cut to the limit exactly
C11_LongTextHanded ==
    /\ call.pc = "returned"
    /\ Len(call.text) > MAX_TRANSLATION_LENGTH
    /\ call.handed # <<>>
    /\ Len(call.handed[1]) = MAX_TRANSLATION_LENGTH

\* C12: when the text, its whitespace collapsed, is longer than the limit L and
\* holds a sentence boundary ". " within its first L characters, the payload
\* is the text cut at the last such boundary, the dots and blanks that end
\* the cut left out: whole leading sentences; it is text[:L] (stripped) only
\* when no sentence fits
C12_CutAtSentenceBoundary ==
    \A k \in DOMAIN call.handed :
        LET text == Normalised(call.text)
            payload == call.handed[k]
            ends == {b \in 2..MAX_TRANSLATION_LENGTH :
                         text[b - 1] = "." /\ text[b] = " "}
            last == CHOOSE b \in ends : \A c \in ends : c <= b
        IN  Len(text) > MAX_TRANSLATION_LENGTH =>
                IF ends # {}
                THEN /\ Len(payload) <= last - 2
                     /\ payload = SubSeq(text, 1, Len(payload))
                     /\ \A m \in (Len(payload) + 1)..last : text[m] \in {".", " "}
                ELSE payload = Strip(SubSeq(text, 1, MAX_TRANSLATION_LENGTH))

\* a text longer than the limit was handed over as its two leading sentences
C12_TwoSentencesHanded ==
    /\ call.pc = "returned"
    /\ Len(Normalised(call.text)) > MAX_TRANSLATION_LENGTH
    /\ call.handed # <<>>
    /\ \E m \in 2..(Len(call.handed[1]) - 2) :
           /\ call.handed[1][m] = "."
           /\ call.handed[1][m + 1] = " "
           /\ call.handed[1][m - 1] = "a"

\* C13: a call of translate_text in which the throttle, the preparation of
\* the text or the external translator raises returns, and what it returns
\* is the original text behind the marker "[Translation failed] "
C13_FailureIsMarked ==
    (call.pc # "given" /\ call.fault # "none" /\ ~IsBlank(call.text)) =>
        /\ call.pc = "returned"
        /\ call.result = <<"[Translation failed] ">> \o call.text

\* the external translator raised on the payload of a text longer than the
\* limit, and the call returned
C13_TranslatorRaised ==
    /\ call.pc = "returned"
    /\ call.fault = "translator"
    /\ Len(call.text) > MAX_TRANSLATION_LENGTH
    /\ call.handed # <<>>
    /\ Len(call.result) = Len(call.text) + 1

\* C14: get_game_news returns to its caller, and returns no news, when the
\* upstream answers with a status other than 200, with a network error or a
\* timeout, or without 'appnews': the poll cycle that asked ends having
\* found nothing, and no cycle works on news of such a response
C14_FailedFetchBringsNothing ==
    /\ \A k \in DOMAIN cycle_log :
           (/\ cycle_log[k].feed \in Responses
            /\ Response[cycle_log[k].feed].kind # "ok") =>
               /\ cycle_log[k].outcome = "nothing"
               /\ cycle_log[k].posted = <<>>
    /\ poller.pc = "items" => Response[poller.feed].kind = "ok"

\* one cycle met a status other than 200, the next a network error
C14_TwoFailedFetches ==
    /\ Len(cycle_log) = 2
    /\ cycle_log[1].feed = "BadStatus"
    /\ cycle_log[2].feed = "NetworkError"
    /\ cycle_log[2].outcome = "nothing"

\* the step is one of a poll cycle of the running process
CycleStep ==
    /\ poller.pc \in {"fetching", "items"}
    /\ poller' # poller
    /\ lifetime' = lifetime

\* the cycle the step belongs to has nothing to publish: its fetch brought
\* no news, or every article it fetched is in the ledger
QuietCycle ==
    IF poller.pc = "fetching"
    THEN \/ poller'.pc = "idle"
         \/ \A k \in DOMAIN poller'.src : poller'.src[k] \in published_news
    ELSE \A k \in DOMAIN poller.src : poller.src[k] \in published_news

\* C15: no step of a poll cycle whose fetch failed, or whose fetched articles
\* are all in the ledger, asks the throttle anything, lets time pass in a
\* sleep, sends a message, changes published_news or writes the ledger file
C15_QuietCycleHasNoEffect ==
    [][(CycleStep /\ QuietCycle) =>
           /\ request_count' = request_count
           /\ reset_time' = reset_time
           /\ last_request_time' = last_request_time
           /\ now' = now
           /\ sent' = sent
           /\ published_news' = published_news
           /\ ledger_file' = ledger_file]_vars

\* a cycle that fetched the one article "42" with "42" in the ledger ended,
\* and so did a cycle whose fetch failed
C15_QuietCyclesEnded ==
    /\ Len(cycle_log) = 2
    /\ cycle_log[1].feed = "Feed42"
    /\ "42" \in cycle_log[1].before
    /\ cycle_log[2].feed = "NetworkError"

\* C17: a process whose ledger file is missing, unreadable or corrupt gets
\* through its constructor, and starts with an empty published_news
C17_LoadNeverFailsStartup ==
    /\ poller.pc # "crashed"
    /\ (poller.pc = "waiting" /\ ledger_file.kind # "json") => published_news = {}

\* a process restarted over an unreadable ledger file has come to on_ready
C17_RestartedOverUnreadableFile ==
    /\ lifetime = 1
    /\ ledger_file = UnreadableFile
    /\ poller.pc = "idle"
    /\ published_news = {}

\* C21: a feed item that lacks fields (here every field but the title, the
\* identifier among them) comes out of the fetch with a default for each
\* expected field, and the poll cycle that works on it does not raise
C21_MissingFieldsDefaulted ==
    /\ (poller.pc = "items" /\ poller.feed = "FeedBare") =>
           \A k \in DOMAIN poller.news_items :
               \A key \in {"gid", "title", "contents", "url", "author", "date"} :
                   HasKey(poller.news_items[k], key)
    /\ \A k \in DOMAIN cycle_log :
           cycle_log[k].feed = "FeedBare" => cycle_log[k].outcome # "raised"

\* a cycle that fetched the item without identifier ended by raising, with
\* nothing sent
C21_BareItemRaised ==
    \E k \in DOMAIN cycle_log :
        /\ cycle_log[k].feed = "FeedBare"
        /\ cycle_log[k].outcome = "raised"
        /\ cycle_log[k].posted = <<>>

\* the last cycle that ended, when it ended in the running process
LastCycleRaised ==
    /\ cycle_log # <<>>
    /\ cycle_log[Len(cycle_log)].life = lifetime
    /\ cycle_log[Len(cycle_log)].outcome = "raised"

\* C22: after a cycle in which a programming error was raised (the KeyError
\* of line 550) the polling loop is stopped: it neither waits for a next
\* tick nor runs another cycle
C22_ProgrammingErrorStopsPoller ==
    LastCycleRaised => poller.pc \notin {"idle", "fetching", "items"}

\* a cycle raised, and the next tick of the same process has started a cycle
C22_CycleAfterRaisedCycle ==
    /\ LastCycleRaised
    /\ poller.pc = "fetching"

\* C23: no step loses an identifier from the set that load_published_news
\* would return from the ledger file, a write of the file that fails after
\* open(.., 'w') included
C23_RecoverableSetGrows ==
    [][LoadPublishedNews(ledger_file) \subseteq LoadPublishedNews(ledger_file')]_vars

\* a write has failed after the file was opened, over a ledger that held
\* identifiers
C23_WriteFailedOverLedger ==
    /\ saved = "write_fails"
    /\ ledger_file = CorruptFile
    /\ Cardinality(published_news) >= 2

CallArrives(t) == task[t].pc = "idle" /\ task'[t].pc # "idle"

\* C26: a call that finds the cap of the window reached is suspended until
\* WINDOW_SECONDS after the window start and is not let through before;
\* when its sleep is over the window start becomes the present time, the
\* counter restarts from zero (and counts this call once it is let through)
\* and the call goes on to be let through, at once or after the spacing
\* sleep; a call that arrives WINDOW_SECONDS or more after the window start
\* resets the counter and the window start as well
C26_CapSuspendsThenAdmits ==
    [][\A t \in DOMAIN task :
        /\ (CallArrives(t) /\ now - reset_time >= WINDOW_SECONDS) =>
               /\ reset_time' = now
               /\ request_count' = IF task'[t].pc = "exec" THEN 1 ELSE 0
        /\ (/\ CallArrives(t)
            /\ now - reset_time < WINDOW_SECONDS
            /\ request_count >= TRANSLATION_RATE_LIMIT) =>
               /\ task'[t].pc = "sleep_cap"
               /\ task'[t].wake = reset_time + WINDOW_SECONDS
               /\ admits' = admits
        /\ (task[t].pc = "sleep_cap" /\ task'[t].pc # "sleep_cap") =>
               /\ now >= task[t].wake
               /\ reset_time' = now
               /\ task'[t].pc \in {"sleep_gap", "exec"}
               /\ request_count' = IF task'[t].pc = "exec" THEN 1 ELSE 0
        /\ (task[t].pc = "sleep_gap" /\ task'[t].pc # "sleep_gap") =>
               task'[t].pc = "exec"]_vars

\* a call that slept for the cap has been let through as the first call of
\* a window that starts now
C26_FirstOfNewWindow ==
    \E t \in DOMAIN task :
        /\ task[t].pc = "exec"
        /\ task[t].slept_cap
        /\ request_count = 1
        /\ reset_time = now

C28_NoCycleBeforeReady ==
    ~ready =>
        /\ poller.pc \notin {"fetching", "items"}
        /\ \A k \in DOMAIN cycle_log : cycle_log[k].life # lifetime

\* the process was started again, became ready again, and its poller is in
\* a cycle
C28_CycleOfReadyClient ==
    /\ ready
    /\ lifetime > 0
    /\ poller.pc = "fetching"
    /\ \E k \in DOMAIN cycle_log : cycle_log[k].life < lifetime

\* C29: a poll cycle considers MAX_NEWS_ITEMS articles of the answer at
\* most, whatever their number: its loop ranges over that many items at
\* most, and a cycle that ended has posted that many messages at most and
\* has added that many identifiers at most to the published news.
C29_AtMostMaxNewsItems ==
    /\ poller.pc = "items" =>
          /\ Len(poller.news_items) <= MAX_NEWS_ITEMS
          /\ poller.i <= MAX_NEWS_ITEMS
    /\ \A k \in DOMAIN cycle_log :
          /\ Len(cycle_log[k].posted) <= MAX_NEWS_ITEMS
          /\ Cardinality(cycle_log[k].after \ cycle_log[k].before)
                <= MAX_NEWS_ITEMS

\* the poller is in the loop over an answer of four items, and an earlier
\* cycle over such an answer has ended
C29_FourItemsAnswered ==
    /\ poller.pc = "items"
    /\ poller.feed = "FeedABC42"
    /\ Len(Response[poller.feed].items) > MAX_NEWS_ITEMS
    /\ \E k \in DOMAIN cycle_log : cycle_log[k].feed = "FeedABC42"

\* C31: a failure while the image of an article is resolved (the page
\* answers with another status than 200, the fetch raises or times out) gives
\* no image and no error: get_game_news returns every article of the answer,
\* the one whose page failed without an image; and get_game_header_image
\* returns no image when its probe fails.
C31_ImageFailureGivesNoImage ==
    /\ (fetch.pc \in {"fetched", "probed"} /\ Response[fetch.r].kind = "ok") =>
          /\ Len(fetch.result) = Len(Response[fetch.r].items)
          /\ \A k \in 1..Len(fetch.result) :
                /\ \A key \in DOMAIN NewsOf[fetch.r][k] :
                      /\ HasKey(fetch.result[k], key)
                      /\ fetch.result[k][key] = NewsOf[fetch.r][k][key]
                /\ fetch.pages[k].kind # "ok" => ~HasKey(fetch.result[k], "image")
    /\ (fetch.pc = "probed" /\ fetch.probe # "200") => fetch.header = NoImage

\* an answer of four articles came back whole although the page of the
\* second timed out and that of the third raised, the fourth has its image,
\* and the probe of the header image failed
C31_PagesFailedNewsReturned ==
    /\ fetch.pc = "probed"
    /\ fetch.r = "FeedABC42"
    /\ fetch.pages[2].kind = "timeout"
    /\ fetch.pages[3].kind = "error"
    /\ Len(fetch.result) = 4
    /\ HasKey(fetch.result[4], "image")
    /\ fetch.probe = "error"

\* the image_url that came back for the k-th article of the call
ImageOfArticle(k) ==
    IF HasKey(fetch.result[k], "image") THEN fetch.result[k].image ELSE NoImage

\* the URLs found on the page of the k-th article, in the order found
Candidates(k) == fetch.pages[k].clan \o fetch.pages[k].other

\* the page of the k-th article was asked for and read
PageRead(k) ==
    /\ fetch.pc \in {"fetched", "probed"}
    /\ k \in 1..Len(fetch.result)
    /\ AsksPage(Response[fetch.r].items[k])
    /\ fetch.pages[k].kind = "ok"

\* C32, as claimed: the image resolved from the page of an article never
\* matches the icon, avatar, thumbnail or header terms; a page whose
\* candidates are all excluded gives no image.
C32_ResolvedImageNeverExcluded ==
    \A k \in 1..Len(fetch.pages) :
        PageRead(k) =>
            /\ ImageOfArticle(k) # NoImage => ~IsSkipped(ImageOfArticle(k))
            /\ (\A j \in 1..Len(Candidates(k)) : IsSkipped(Candidates(k)[j]))
                  => ImageOfArticle(k) = NoImage

\* C32, amended: the image resolved from the page of an article is the first
\* candidate found that matches none of the terms; when every candidate
\* matches one, it is the first candidate all the same; a page without a
\* candidate gives no image.
C32_FirstKeptElseFirstFound ==
    \A k \in 1..Len(fetch.pages) :
        PageRead(k) =>
            LET cands == Candidates(k)
                kept == {j \in 1..Len(cands) : ~IsSkipped(cands[j])}
            IN  IF cands = <<>> THEN ImageOfArticle(k) = NoImage
                ELSE IF kept = {} THEN ImageOfArticle(k) = cands[1]
                ELSE \E j \in kept :
                        /\ \A i \in kept : j <= i
                        /\ ImageOfArticle(k) = cands[j]

\* an answer came back whose first article has a page with an icon before
\* an image, and whose second has a page with an icon and a thumbnail alone
C32_IconSkippedIconKept ==
    /\ PageRead(1) /\ PageRead(2)
    /\ Candidates(1) = <<ClanIcon, ClanIcon, ClanImage, SharedPic>>
    /\ ImageOfArticle(1) = ClanImage
    /\ Candidates(2) = <<ClanIcon, SharedThumb>>
    /\ ImageOfArticle(2) = ClanIcon

\* C33: for each requester, any two calls of check_rate_limit that returned
\* True are RATE_LIMIT_SECONDS apart at least; a call that returned False
\* left the timestamp of its requester as it was; and a call left the
\* timestamps of the other requesters as they were.
C33_CooldownPerRequester ==
    /\ \A u \in DOMAIN asks.accepted :
          \A i, j \in DOMAIN asks.accepted[u] :
              i < j => asks.accepted[u][j] - asks.accepted[u][i]
                          >= RATE_LIMIT_SECONDS
    /\ \A v \in DOMAIN asks.before :
          (v # asks.user_id \/ ~asks.returned) =>
              user_cooldowns[v] = asks.before[v]

\* requester 1 was let through twice, requester 2 was let through in
\* between, less than RATE_LIMIT_SECONDS after requester 1, and the last
\* call, by requester 2, was turned down
C33_TwoRequestersInterleaved ==
    /\ asks.n = 4
    /\ Len(asks.accepted[1]) = 2
    /\ Len(asks.accepted[2]) = 1
    /\ asks.accepted[2][1] - asks.accepted[1][1] \in 1..(RATE_LIMIT_SECONDS - 1)
    /\ asks.user_id = 2
    /\ ~asks.returned

\* C34: a poll cycle that starts while no channel is set, or while the
\* channel that is set cannot be resolved, does nothing: it does not go on
\* to the fetch, and it leaves the published news, the ledger file, the
\* messages sent and the throttle as they were; a cycle goes on to the fetch
\* only when a channel is set.
C34_NoChannelNoCycle ==
    [][/\ (poller.pc = "idle" /\ poller'.pc = "fetching") =>
              (/\ auto_channel_id # NoChannel
               /\ poller'.channel = auto_channel_id)
       /\ (/\ Len(cycle_log') = Len(cycle_log) + 1
           /\ cycle_log'[Len(cycle_log')].outcome \in {"no_channel", "unresolved"})
          => (/\ poller' = poller
              /\ published_news' = published_news
              /\ ledger_file' = ledger_file
              /\ sent' = sent
              /\ request_count' = request_count
              /\ last_request_time' = last_request_time)]_vars

\* a cycle started while no channel was set and did nothing, a channel was
\* set by setup-auto, and the next cycle is at its fetch
C34_SkippedThenResumed ==
    /\ Len(cycle_log) = 1
    /\ cycle_log[1].outcome = "no_channel"
    /\ cycle_log[1].life = lifetime
    /\ poller.pc = "fetching"
    /\ poller.channel # NoChannel

\* an on-demand message for the article "42" is among the messages sent
PostedOnDemand42(msgs) ==
    \E k \in DOMAIN msgs : msgs[k].via = "ondemand" /\ msgs[k].src = "42"

\* the step is a turn of the on-demand loop
OnDemandTurn ==
    /\ ondemand.pc = "items"
    /\ ondemand' # ondemand
    /\ lifetime' = lifetime

\* C36: the on-demand path neither reads nor writes the ledger: a turn of
\* its loop leaves published_news and the ledger file as they were, and
\* posts its article whether or not it is among the published news unless
\* a send fails; and the poll cycle that comes to the article "42" after it
\* was posted on demand, "42" not being published, still posts it.
C36_OnDemandApartFromLedger ==
    [][/\ OnDemandTurn =>
              (/\ published_news' = published_news
               /\ ledger_file' = ledger_file
               /\ trouble' = trouble =>
                     (/\ Len(sent') = Len(sent) + 1
                      /\ sent'[Len(sent')].src = ondemand.src[ondemand.i]))
       /\ (/\ poller.pc = "items"
           /\ poller.feed = "Feed42"
           /\ "42" \notin published_news
           /\ PostedOnDemand42(sent)
           /\ trouble' = trouble
           /\ Len(cycle_log') = Len(cycle_log) + 1)
          => Delivered(cycle_log'[Len(cycle_log')]) = <<"42">>]_vars

\* the article "42" was posted on demand, and a poll cycle that was given it
\* while it was not published ended by raising, with nothing posted
C36_PostedOnDemandThenCycleRaised ==
    /\ PostedOnDemand42(sent)
    /\ \E k \in DOMAIN cycle_log :
          /\ cycle_log[k].feed = "Feed42"
          /\ "42" \notin cycle_log[k].before
          /\ cycle_log[k].outcome = "raised"
          /\ cycle_log[k].posted = <<>>

\* C37: translate_text called with an empty text, or with one of white
\* space only, returns that text as it is, hands nothing to the external
\* translator, and leaves request_count, reset_time and last_request_time
\* as they were.
C37_BlankTextUntouched ==
    [][(call.pc = "given" /\ call'.pc = "returned" /\ IsBlank(call.text)) =>
           (/\ call'.result = call.text
            /\ call'.handed = <<>>
            /\ request_count' = request_count
            /\ reset_time' = reset_time
            /\ last_request_time' = last_request_time
            /\ now' = now)]_vars

\* a call with a newline and a tab has returned them
C37_WhiteSpaceReturned ==
    /\ call.pc = "returned"
    /\ call.text = <<"\n", "\t">>
    /\ call.result = <<"\n", "\t">>
    /\ request_count = 0

====
